---- MODULE Spec2Model ----
(***************************************************************************)
(* Model of the analysis task scheduler (backend/app/services/scheduler.py)*)
(* and of the analysis executor / master-recipe generator                  *)
(* (backend/app/services/analysis.py, backend/app/utils/gemini.py).        *)
(*                                                                         *)
(* The specifications share the document-store variables:                 *)
(*   Spec    the scheduler: schedule_task calls, task_processor loops,     *)
(*           the category tracker; an executor run is one worker step.    *)
(*   SpecAP  one run of analyze_product, one generation call per step.    *)
(*   SpecMR  concurrent check_and_generate_master_recipes invocations,    *)
(*           one document-store round trip per step.                      *)
(*   SpecLK  the callers of the completion checker with their category   *)
(*           locks.                                                       *)
(*   SpecIV  the scheduler given products analyze_product cannot use.     *)
(* Coroutines interleave at their await points: every action is the code  *)
(* between two awaits.                                                     *)
(***************************************************************************)
EXTENDS Integers, Sequences, FiniteSets, Bags, TLC

VARIABLES
    now,                    \* datetime.utcnow(), in whole seconds
    products,               \* ids of the documents in the products collection
    active_blocks,          \* prompts.find({is_active, competitor_analysis}): a list of documents
    market_prompt,          \* the active market_research prompt document
    analysis,               \* the analysis collection: a bag of rows
    master,                 \* the master_recipes collection: a bag of documents
    task_objs,              \* every AnalysisTask object created so far, in creation order
    task_hist,              \* history, per task object: dispatches and how its call ended
    tasks,                  \* scheduler.tasks: task_id -> index of the task object
    task_queue,             \* scheduler.task_queue (asyncio.Queue): task object indices
    running,                \* scheduler.running
    calls,                  \* schedule_task calls suspended in _track_product_category
    workers,                \* task_processor coroutines: slot -> [pc, cur, res]
    category_task_queues,   \* scheduler: category key -> set of product ids
    category_task_locks,    \* scheduler: category key -> holder of the asyncio.Lock
    task_mirror,            \* the analysis_tasks collection: task_id -> status document
    checker_calls,          \* history: check_and_generate_master_recipes invocations
    ap,                     \* SpecAP: the analyze_product run in progress
    mr                      \* SpecMR: the checker invocations in progress

dbVars    == <<products, active_blocks, market_prompt, analysis, master>>
schedVars == <<now, task_objs, task_hist, tasks, task_queue, running, calls,
               category_task_queues, category_task_locks, task_mirror, checker_calls>>
vars      == <<now, products, active_blocks, market_prompt, analysis, master, task_objs,
               task_hist, tasks, task_queue, running, calls, workers,
               category_task_queues, category_task_locks, task_mirror, checker_calls,
               ap, mr>>

(***************************************************************************)
(* Bounds of the model.                                                    *)
(***************************************************************************)
MaxTime      == 1   \* the clock runs over 0..MaxTime
MaxCalls     == 2   \* schedule_task calls per behaviour
SchedBlocks  == 1   \* Spec: at most this many active prompt blocks
MaxBlocks    == 3   \* SpecAP: at most this many active prompt blocks
MaxTriggers  == 2   \* SpecMR: invocations of the completion checker
MRBlocks     == 1   \* SpecMR: at most this many active prompt blocks

(***************************************************************************)
(* Program constants.                                                      *)
(***************************************************************************)
MinResponseLen  == 200   \* len(result["response"]) < 200 triggers the re-run
PROMPT_BATCH_SIZE == 2
TaskTimeout     == 300   \* scheduler.timeout
MaxWaitTime     == 20    \* check_and_generate_master_recipes: max_wait_time
CheckInterval   == 2     \* check_and_generate_master_recipes: check_interval

NoneVal == "None"

(***************************************************************************)
(* Python values.                                                          *)
(***************************************************************************)
HasKey(d, k) == k \in DOMAIN d

\* str(e) of an exception object: its message ("" for asyncio.TimeoutError()).
Str(e) == e.msg

ValueError(m)     == [exc |-> "ValueError", msg |-> m]
AttributeError(m) == [exc |-> "AttributeError", msg |-> m]
KeyError(m)       == [exc |-> "KeyError", msg |-> m]
\* asyncio.wait_for raises TimeoutError() without arguments
TimeoutError      == [exc |-> "TimeoutError", msg |-> ""]

(***************************************************************************)
(* The products collection.  A product document carries the              *)
(* category_hierarchy the client sent (routers/products.py stores          *)
(* **product_data unchanged): the dict layout read by scheduler.py and     *)
(* analysis.py, or the list layout read by competitor_analysis.py.         *)
(***************************************************************************)
DictHierarchy(main, subs) ==
    [layout |-> "dict", main_category |-> main, sub_categories |-> subs]
ListHierarchy(items) == [layout |-> "list", items |-> items]

ProductIds == {"p1", "p2", "p3"}

category_hierarchy(p) ==
    CASE p = "p1" -> DictHierarchy("Home", <<"Kitchen">>)
      [] p = "p2" -> DictHierarchy("Home", <<"Dining", "Kitchen">>)
      [] p = "p3" -> ListHierarchy(<<"Home", "Kitchen">>)
      [] p = "p4" -> DictHierarchy("Home", <<>>)
      [] OTHER    -> DictHierarchy(NoneVal, <<>>)

\* f"{main}>{sub}"
get_category_key(main, sub) == main \o ">" \o sub

Last(s) == s[Len(s)]

Range(s) == {s[i] : i \in DOMAIN s}

(***************************************************************************)
(* The prompts collection.  A prompt block document has an id and a       *)
(* block_title (here the same name); has_content tells whether it        *)
(* carries the "content" field use_stored_prompt reads (a document made   *)
(* by routers/prompts.py has "input_prompt" and no "content").            *)
(***************************************************************************)
BlockNames == <<"b1", "b2", "b3", "b4", "b5", "b6">>

PromptBlock(i, c) ==
    [id |-> BlockNames[i], block_title |-> BlockNames[i], has_content |-> c]

BlockLists(n) == [1..n -> BOOLEAN]

Blocks(flags) == [i \in DOMAIN flags |-> PromptBlock(i, flags[i])]

\* block_title is free text of the prompt's author (prompts.py line 72)
FirstTitles == {"b1", "error"}

\* the blocks with the first one titled t
Titled(blocks, t) ==
    [i \in DOMAIN blocks |->
        IF i = 1 THEN [blocks[i] EXCEPT !.block_title = t] ELSE blocks[i]]

MarketPrompt(c) == [id |-> "m1", block_title |-> "m1", has_content |-> c]

(***************************************************************************)
(* The generation client (utils/gemini.py).                               *)
(***************************************************************************)
\* get_gemini_response's return values; the response is kept as its length
GenSuccess(n) == [success |-> TRUE, response |-> n]
GenFailure    == [success |-> FALSE, error |-> "generation failed"]

RespLens == {0, 50, 199, 200, 300}

GeminiResults == {GenSuccess(n) : n \in RespLens} \cup {GenFailure}

\* a call either returns a value or raises an exception
Returned(v) == [value |-> v]
Raised(e)   == [exc |-> e]
Raises(c)   == HasKey(c, "exc")

\* use_stored_prompt(prompt_id, ...): gen is what get_gemini_response returns
use_stored_prompt(block, gen) ==
    IF ~block.has_content
    THEN Raised(KeyError("'content'"))     \* prompt["content"]
    ELSE Returned(gen)

(***************************************************************************)
(* analyze_product, one prompt block (analysis.py lines 73-110).          *)
(***************************************************************************)
OkEntry(r)  == [error |-> FALSE, output |-> r]
ErrEntry(m) == [error |-> TRUE, message |-> "Error: " \o m]

\* result.get("success") and result.get("response") and len(...) < 200
NeedsRerun(r) ==
    /\ r.success
    /\ HasKey(r, "response")
    /\ r.response > 0
    /\ r.response < MinResponseLen

NotInserted(n, m) == [calls |-> n, inserted |-> FALSE, entry |-> ErrEntry(m)]
Inserted(n, r)    == [calls |-> n, inserted |-> TRUE, output |-> r, entry |-> OkEntry(r)]

\* the document is built from the result only if result["response"] exists
Persist(n, c) ==
    IF Raises(c) THEN NotInserted(n, Str(c.exc))
    ELSE IF ~HasKey(c.value, "response") THEN NotInserted(n, "'response'")
    ELSE Inserted(n, c.value)

RunBlock(block, g1, g2) ==
    LET c1 == use_stored_prompt(block, g1)
    IN  IF Raises(c1) THEN NotInserted(1, Str(c1.exc))
        ELSE IF NeedsRerun(c1.value)
             THEN Persist(2, use_stored_prompt(block, g2))
             ELSE Persist(1, c1)

AnalysisRow(p, block, main, sub, r) ==
    [product_id |-> p, prompt_block_id |-> block.id,
     category |-> main, subcategory |-> sub, output |-> r]

(***************************************************************************)
(* analyze_product, product load and validation (analysis.py lines 35-46).*)
(***************************************************************************)
Falsy(v) == v = NoneVal \/ v = ""

LoadCategory(p) ==
    IF p \notin products THEN Raised(ValueError("Product not found"))
    ELSE LET h == category_hierarchy(p)
         IN  IF h.layout # "dict"
             THEN Raised(AttributeError("'list' object has no attribute 'get'"))
             ELSE IF Falsy(h.main_category) \/ h.sub_categories = <<>>
             THEN Raised(ValueError("Category hierarchy incomplete"))
             ELSE Returned([main |-> h.main_category, sub |-> Last(h.sub_categories)])

(***************************************************************************)
(* check_and_generate_master_recipes and create_master_recipe             *)
(* (analysis.py lines 310-414).                                           *)
(***************************************************************************)
\* products.count_documents({"category_hierarchy.main_category": category,
\*                           "category_hierarchy.sub_categories": subcategory})
TotalExpected(category, subcategory) ==
    Cardinality({p \in products :
        LET h == category_hierarchy(p)
        IN  /\ h.layout = "dict"
            /\ h.main_category = category
            /\ subcategory \in Range(h.sub_categories)})

\* the categories of the stored products
MainCategories == {"Home"}

SubCategories == {"Kitchen", "Dining"}

\* the filter of products.count_documents applied to one product
CountsProduct(p, category, subcategory) ==
    LET h == category_hierarchy(p)
    IN  /\ h.layout = "dict"
        /\ h.main_category = category
        /\ subcategory \in Range(h.sub_categories)

\* analysis.distinct("product_id", {"category": ..., "subcategory": ...})
AnalyzedIds(rows, category, subcategory) ==
    {r.product_id : r \in {x \in BagToSet(rows) :
        /\ HasKey(x, "category")
        /\ x.category = category
        /\ x.subcategory = subcategory}}

AllAnalyzed(rows, category, subcategory) ==
    Cardinality(AnalyzedIds(rows, category, subcategory))
        >= TotalExpected(category, subcategory)

\* master.find_one({"prompt_block_id", "category", "subcategory"})
MasterExists(mast, block, category, subcategory) ==
    \E d \in BagToSet(mast) :
        /\ d.prompt_block_id = block.id
        /\ d.category = category
        /\ d.subcategory = subcategory

\* analysis.find({"prompt_block_id", "category", "subcategory"})
AnalysesFor(rows, block, category, subcategory) ==
    {x \in BagToSet(rows) :
        /\ HasKey(x, "category")
        /\ x.prompt_block_id = block.id
        /\ x.category = category
        /\ x.subcategory = subcategory}

MasterDoc(block, category, subcategory, content) ==
    [prompt_block_id |-> block.id, category |-> category,
     subcategory |-> subcategory, content |-> content]

\* the generation part of create_master_recipe (lines 387-400)
GenerateMaster(block, g1, g2) ==
    LET c1 == use_stored_prompt(block, g1)
    IN  IF Raises(c1) THEN c1
        ELSE IF NeedsRerun(c1.value) THEN use_stored_prompt(block, g2)
        ELSE c1

\* create_master_recipe run without interleaving: the collection afterwards,
\* or the exception it raised
create_master_recipe(mast, rows, block, category, subcategory, g1, g2) ==
    IF MasterExists(mast, block, category, subcategory) THEN Returned(mast)
    ELSE IF AnalysesFor(rows, block, category, subcategory) = {} THEN Returned(mast)
    ELSE LET c == GenerateMaster(block, g1, g2)
         IN  IF Raises(c) THEN c
             ELSE Returned(mast (+) SetToBag({MasterDoc(block, category, subcategory, c.value)}))

RECURSIVE MasterLoop(_, _, _, _, _, _, _)
\* for block in prompt_blocks[i:]: await create_master_recipe(...)
MasterLoop(i, mast, rows, category, subcategory, g1, g2) ==
    IF i > Len(active_blocks) THEN Returned(mast)
    ELSE LET c == create_master_recipe(mast, rows, active_blocks[i],
                                       category, subcategory, g1, g2)
         IN  IF Raises(c) THEN c
             ELSE MasterLoop(i + 1, c.value, rows, category, subcategory, g1, g2)

\* check_and_generate_master_recipes run without interleaving: nothing is
\* written during the poll, so the poll ends as its first count decides
check_and_generate_master_recipes(mast, rows, category, subcategory, g1, g2) ==
    IF ~AllAnalyzed(rows, category, subcategory) THEN Returned(mast)
    ELSE MasterLoop(1, mast, rows, category, subcategory, g1, g2)

(***************************************************************************)
(* Initial values.                                                         *)
(***************************************************************************)
EmptyDict == [k \in {} |-> NoneVal]

\* dict[k] = v
DictSet(d, k, v) == [x \in DOMAIN d \cup {k} |-> IF x = k THEN v ELSE d[x]]

WorkerSlots == 1..MaxCalls

NoWorker == [pc |-> "none", cur |-> 0, res |-> NoneVal]

\* calls and hist are history: per block the number of generation calls made
\* and what the first and the last of them gave
APIdle == [pc |-> "idle", product_id |-> NoneVal, main |-> NoneVal, sub |-> NoneVal,
           i |-> 0, analysis_results |-> EmptyDict, calls |-> EmptyDict,
           hist |-> EmptyDict, before |-> 0, exc |-> NoneVal]

SchedInit ==
    /\ now = 0
    /\ task_objs = <<>>
    /\ task_hist = <<>>
    /\ tasks = EmptyDict
    /\ task_queue = <<>>
    /\ running = FALSE
    /\ calls = {}
    /\ category_task_queues = EmptyDict
    /\ category_task_locks = EmptyDict
    /\ task_mirror = EmptyDict
    /\ checker_calls = EmptyBag

(***************************************************************************)
(* SpecAP: one run of analyze_product (analysis.py lines 30-119, 276-306).*)
(***************************************************************************)
\* the rows an earlier run for product p left: one per block with content
EarlierRows(p) ==
    SetToBag({AnalysisRow(p, active_blocks[i], "Home", "Kitchen", GenSuccess(300)) :
              i \in {j \in DOMAIN active_blocks : active_blocks[j].has_content}})

InitAP ==
    /\ SchedInit
    /\ workers = [w \in WorkerSlots |-> NoWorker]
    /\ products = {"p1", "p2", "p3", "p4"}
    /\ \E n \in 0..MaxBlocks : \E f \in BlockLists(n) : \E t \in FirstTitles :
          active_blocks = Titled(Blocks(f), t)
    /\ market_prompt = MarketPrompt(TRUE)
    /\ analysis \in {EmptyBag, EarlierRows("p2")}
    /\ master = EmptyBag
    /\ ap = APIdle
    /\ mr = <<>>

\* lines 35-68
APStart(p) ==
    /\ ap.pc = "idle"
    /\ LET c == LoadCategory(p)
       IN  ap' = IF Raises(c)
                 THEN [ap EXCEPT !.pc = "raised", !.product_id = p, !.exc = c.exc]
                 ELSE [ap EXCEPT !.pc = "blocks", !.product_id = p,
                                 !.main = c.value.main, !.sub = c.value.sub,
                                 !.i = 1, !.before = BagCardinality(analysis)]
    /\ UNCHANGED <<dbVars, schedVars, workers, mr>>

\* a block loop without the try/except of lines 73 and 108: a failed block
\* ends the run
APBlockAborts(g1, g2) ==
    /\ ap.pc = "blocks"
    /\ ap.i <= Len(active_blocks)
    /\ LET block == active_blocks[ap.i]
           r == RunBlock(block, g1, g2)
       IN  /\ analysis' = IF r.inserted
                          THEN analysis (+) SetToBag({AnalysisRow(ap.product_id, block,
                                                                  ap.main, ap.sub, r.output)})
                          ELSE analysis
           /\ ap' = IF r.inserted
                     THEN [ap EXCEPT !.i = @ + 1,
                               !.analysis_results = DictSet(@, block.block_title, r.entry),
                               !.calls = DictSet(@, block.id, r.calls),
                               !.hist = DictSet(@, block.id,
                                   [first |-> use_stored_prompt(block, g1),
                                    last  |-> IF r.calls = 2
                                              THEN use_stored_prompt(block, g2)
                                              ELSE use_stored_prompt(block, g1)])]
                     ELSE [ap EXCEPT !.pc = "raised", !.exc = KeyError("'response'")]
    /\ UNCHANGED <<products, active_blocks, market_prompt, master, schedVars, workers, mr>>

\* lines 72-110, for block active_blocks[ap.i]
APBlock(g1, g2) ==
    /\ ap.pc = "blocks"
    /\ ap.i <= Len(active_blocks)
    /\ LET block == active_blocks[ap.i]
           r == RunBlock(block, g1, g2)
       IN  /\ analysis' = IF r.inserted
                          THEN analysis (+) SetToBag({AnalysisRow(ap.product_id, block,
                                                                  ap.main, ap.sub, r.output)})
                          ELSE analysis
           /\ ap' = [ap EXCEPT !.i = @ + 1,
                               !.analysis_results = DictSet(@, block.block_title, r.entry),
                               !.calls = DictSet(@, block.id, r.calls),
                               !.hist = DictSet(@, block.id,
                                   [first |-> use_stored_prompt(block, g1),
                                    last  |-> IF r.calls = 2
                                              THEN use_stored_prompt(block, g2)
                                              ELSE use_stored_prompt(block, g1)])]
    /\ UNCHANGED <<products, active_blocks, market_prompt, master, schedVars, workers, mr>>

\* lines 116-119 and 278-280: queue_product_for_analysis runs the checker
APFinish(g1, g2) ==
    /\ ap.pc = "blocks"
    /\ ap.i > Len(active_blocks)
    /\ LET c == check_and_generate_master_recipes(master, analysis, ap.main, ap.sub, g1, g2)
       IN  /\ master' = IF Raises(c) THEN master ELSE c.value
           /\ ap' = IF Raises(c) THEN [ap EXCEPT !.pc = "raised", !.exc = c.exc]
                     ELSE [ap EXCEPT !.pc = "returned"]
    /\ checker_calls' = checker_calls (+)
           SetToBag({[origin |-> "executor", key |-> get_category_key(ap.main, ap.sub)]})
    /\ UNCHANGED <<products, active_blocks, market_prompt, analysis, now, task_objs,
                   task_hist, tasks, task_queue, running, calls, workers,
                   category_task_queues, category_task_locks, task_mirror, mr>>

NextAP ==
    \/ \E p \in products \cup {"p0"} : APStart(p)
    \/ \E g1, g2 \in GeminiResults : APBlock(g1, g2)
    \/ \E g1, g2 \in GeminiResults : APFinish(g1, g2)

SpecAP == InitAP /\ [][NextAP]_vars

(***************************************************************************)
(* The executors as the scheduler sees them: one run, start to end.       *)
(* An effect is what the run returned or raised and what it left in the   *)
(* document store.                                                         *)
(***************************************************************************)
Effect(o, rows, mast, checks) ==
    [outcome |-> o, analysis |-> rows, master |-> mast, checks |-> checks]

ExecutorCheck(main, sub) ==
    SetToBag({[origin |-> "executor", key |-> get_category_key(main, sub)]})

RECURSIVE AnalyzeBlocks(_, _, _, _, _, _, _)
\* the loop of analysis.py lines 70-114 over blocks i..upto; acc holds the
\* rows of the analysis collection and analysis_results
AnalyzeBlocks(i, upto, p, cat, g1, g2, acc) ==
    IF i > upto THEN acc
    ELSE LET block == active_blocks[i]
             r == RunBlock(block, g1, g2)
         IN  AnalyzeBlocks(i + 1, upto, p, cat, g1, g2,
                 [rows    |-> IF r.inserted
                              THEN acc.rows (+) SetToBag({AnalysisRow(p, block, cat.main,
                                                                      cat.sub, r.output)})
                              ELSE acc.rows,
                  results |-> DictSet(acc.results, block.block_title, r.entry)])

\* analyze_product with the validation of lines 36-43 moved after the block
\* loop: the blocks of an unusable product are run before it raises
analyze_product_unvalidated(p, g1, g2) ==
    LET c == LoadCategory(p)
    IN  IF Raises(c)
        THEN Effect(c, AnalyzeBlocks(1, Len(active_blocks), p,
                                     [main |-> NoneVal, sub |-> NoneVal], g1, g2,
                                     [rows |-> analysis, results |-> EmptyDict]).rows,
                    master, EmptyBag)
        ELSE LET done == AnalyzeBlocks(1, Len(active_blocks), p, c.value, g1, g2,
                                       [rows |-> analysis, results |-> EmptyDict])
                 m == check_and_generate_master_recipes(master, done.rows, c.value.main,
                                                        c.value.sub, g1, g2)
             IN  IF Raises(m)
                 THEN Effect(m, done.rows, master, ExecutorCheck(c.value.main, c.value.sub))
                 ELSE Effect(Returned(done.results), done.rows, m.value,
                             ExecutorCheck(c.value.main, c.value.sub))

\* analyze_product(product_id, user_id) run to its end
analyze_product(p, g1, g2) ==
    LET c == LoadCategory(p)
    IN  IF Raises(c) THEN Effect(c, analysis, master, EmptyBag)
        ELSE LET done == AnalyzeBlocks(1, Len(active_blocks), p, c.value, g1, g2,
                                       [rows |-> analysis, results |-> EmptyDict])
                 m == check_and_generate_master_recipes(master, done.rows, c.value.main,
                                                        c.value.sub, g1, g2)
             IN  IF Raises(m)
                 THEN Effect(m, done.rows, master, ExecutorCheck(c.value.main, c.value.sub))
                 ELSE Effect(Returned(done.results), done.rows, m.value,
                             ExecutorCheck(c.value.main, c.value.sub))

\* analyze_product cancelled by asyncio.wait_for after k blocks
analyze_product_cancelled(p, k, g1, g2) ==
    LET c == LoadCategory(p)
    IN  IF Raises(c) THEN Effect(Raised(TimeoutError), analysis, master, EmptyBag)
        ELSE Effect(Raised(TimeoutError),
                    AnalyzeBlocks(1, k, p, c.value, g1, g2,
                                  [rows |-> analysis, results |-> EmptyDict]).rows,
                    master, EmptyBag)

MarketRow(p, block_id, r) ==
    [product_id |-> p, prompt_block_id |-> block_id, output |-> r]

\* perform_market_research_analysis (analysis.py lines 419-514)
perform_market_research_analysis(p, block_id, g) ==
    IF p \notin products
    THEN Effect(Returned([error |-> "Product not found"]), analysis, master, EmptyBag)
    ELSE IF block_id # market_prompt.id
    THEN Effect(Returned([error |-> "Prompt block not found"]), analysis, master, EmptyBag)
    ELSE LET c == use_stored_prompt(market_prompt, g)
         IN  IF Raises(c)
             THEN Effect(Returned([error |-> Str(c.exc)]), analysis, master, EmptyBag)
             ELSE Effect(Returned(MarketRow(p, block_id, c.value)),
                         analysis (+) SetToBag({MarketRow(p, block_id, c.value)}),
                         master, EmptyBag)

(***************************************************************************)
(* AnalysisTask and schedule_task (scheduler.py lines 20-80, 95-114).     *)
(***************************************************************************)
AnalysisTask(product_id, scheduled_time, task_id, task_type, prompt_block_id) ==
    [product_id |-> product_id, scheduled_time |-> scheduled_time,
     task_id |-> task_id, task_type |-> task_type,
     prompt_block_id |-> prompt_block_id,
     executed |-> FALSE, success |-> FALSE, error |-> NoneVal]

\* f"{int(datetime.utcnow().timestamp())}_{product_id}"
TaskId(t, product_id) == <<t, product_id>>

\* history of a task object: dispatches, how its schedule_task call ended,
\* whether its cleanup removed a tracked product, how the pending set was
\* mutated for it, and whether a pop found it not yet due
NewHist == [runs |-> 0, call |-> "pending", untracked |-> FALSE,
            add |-> "none", discard |-> "none", deferred |-> FALSE]

TaskInputs ==
    {[task_type |-> "standard_analysis", prompt_block_id |-> NoneVal],
     [task_type |-> "market_research", prompt_block_id |-> "m1"]}

\* lines 58-71, up to the await of products.find_one in _track_product_category
SchedulePut(p, delay, inp) ==
    /\ Len(task_objs) < MaxCalls
    /\ now + delay <= MaxTime
    /\ LET task_id == TaskId(now, p)
           task == AnalysisTask(p, now + delay, task_id, inp.task_type, inp.prompt_block_id)
           n == Len(task_objs) + 1
       IN  /\ task_objs' = Append(task_objs, task)
           /\ task_hist' = Append(task_hist, NewHist)
           /\ tasks' = DictSet(tasks, task_id, n)
           /\ task_queue' = Append(task_queue, n)
           /\ calls' = calls \cup {n}
    /\ UNCHANGED <<now, dbVars, running, workers, category_task_queues,
                   category_task_locks, task_mirror, checker_calls, ap, mr>>

NoKey == [main |-> NoneVal, sub |-> NoneVal]

\* an asyncio.Lock of category_task_locks: 0 when free, else the task whose
\* coroutine is inside "async with"
HeldBy(locks, key, n) == HasKey(locks, key) /\ locks[key] = n

Acquire(locks, key, n) == [locks EXCEPT ![key] = n]

\* how a coroutine working for task n mutates the pending set of key
Mutation(locks, key, n) == IF HeldBy(locks, key, n) THEN "locked" ELSE "unlocked"

\* the category key as scheduler.py derives it (lines 99-108, 220-229):
\* NoKey when the product is absent or its hierarchy incomplete
SchedulerKey(p) ==
    IF p \notin products THEN Returned(NoKey)
    ELSE LET h == category_hierarchy(p)
         IN  IF h.layout # "dict"
             THEN Raised(AttributeError("'list' object has no attribute 'get'"))
             ELSE IF Falsy(h.main_category) \/ h.sub_categories = <<>>
             THEN Returned(NoKey)
             ELSE Returned([main |-> h.main_category, sub |-> Last(h.sub_categories)])

FreeSlot == CHOOSE w \in WorkerSlots :
                /\ workers[w].pc = "none"
                /\ \A v \in WorkerSlots : workers[v].pc = "none" => w <= v

\* asyncio.create_task(self.task_processor())
CreateWorker(ws) == [ws EXCEPT ![FreeSlot] = [pc |-> "start", cur |-> 0, res |-> NoneVal]]

\* if not self.running: asyncio.create_task(self.task_processor())
StartProcessor(ws) == IF ~running THEN CreateWorker(ws) ELSE ws

\* lines 99-114 and 76-80: the call resumes after products.find_one
ScheduleTrack(n) ==
    /\ n \in calls
    /\ calls' = calls \ {n}
    /\ LET p == task_objs[n].product_id
           c == SchedulerKey(p)
       IN  IF Raises(c)
           THEN /\ task_hist' = [task_hist EXCEPT ![n].call = "raised"]
                /\ UNCHANGED <<workers, category_task_queues, category_task_locks>>
           ELSE /\ workers' = StartProcessor(workers)
                /\ IF c.value = NoKey
                   THEN /\ task_hist' = [task_hist EXCEPT ![n].call = "returned"]
                        /\ UNCHANGED <<category_task_queues, category_task_locks>>
                   ELSE LET key == get_category_key(c.value.main, c.value.sub)
                            old == IF HasKey(category_task_queues, key)
                                   THEN category_task_queues[key] ELSE {}
                            locks == IF HasKey(category_task_locks, key)
                                     THEN category_task_locks
                                     ELSE DictSet(category_task_locks, key, 0)
                        IN  /\ category_task_queues' =
                                   DictSet(category_task_queues, key, old \cup {p})
                            /\ category_task_locks' = locks
                            /\ task_hist' = [task_hist EXCEPT
                                   ![n].call = "returned",
                                   ![n].add = Mutation(locks, key, n)]
    /\ UNCHANGED <<now, dbVars, task_objs, tasks, task_queue, running,
                   task_mirror, checker_calls, ap, mr>>

(***************************************************************************)
(* task_processor (scheduler.py lines 116-261).                           *)
(***************************************************************************)
\* line 120: the coroutine created by create_task starts running
WorkerStart(w) ==
    /\ workers[w].pc = "start"
    /\ running' = TRUE
    /\ workers' = [workers EXCEPT ![w].pc = "get"]
    /\ UNCHANGED <<now, dbVars, task_objs, task_hist, tasks, task_queue, calls,
                   category_task_queues, category_task_locks, task_mirror,
                   checker_calls, ap, mr>>

\* a pop that hands every task to its executor, due or not
WorkerGetEager(w) ==
    /\ workers[w].pc = "get"
    /\ task_queue # <<>>
    /\ task_queue' = Tail(task_queue)
    /\ workers' = [workers EXCEPT ![w].pc = "run", ![w].cur = Head(task_queue)]
    /\ UNCHANGED <<now, dbVars, task_objs, task_hist, tasks, running, calls,
                   category_task_queues, category_task_locks, task_mirror,
                   checker_calls, ap, mr>>

\* a pop that leaves a task not yet due at the head of the queue
WorkerGetBlocks(w) ==
    /\ workers[w].pc = "get"
    /\ task_queue # <<>>
    /\ LET n == Head(task_queue)
       IN  IF task_objs[n].scheduled_time > now
           THEN /\ task_queue' = task_queue
                /\ workers' = [workers EXCEPT ![w].pc = "sleep"]
                /\ task_hist' = [task_hist EXCEPT ![n].deferred = TRUE]
           ELSE /\ task_queue' = Tail(task_queue)
                /\ workers' = [workers EXCEPT ![w].pc = "run", ![w].cur = n]
                /\ UNCHANGED task_hist
    /\ UNCHANGED <<now, dbVars, task_objs, tasks, running, calls,
                   category_task_queues, category_task_locks, task_mirror,
                   checker_calls, ap, mr>>

\* lines 125, 132-136: pop a task; one not yet due goes back on the queue
WorkerGet(w) ==
    /\ workers[w].pc = "get"
    /\ task_queue # <<>>
    /\ LET n == Head(task_queue)
       IN  IF task_objs[n].scheduled_time > now
           THEN /\ task_queue' = Append(Tail(task_queue), n)
                /\ workers' = [workers EXCEPT ![w].pc = "sleep"]
                /\ task_hist' = [task_hist EXCEPT ![n].deferred = TRUE]
           ELSE /\ task_queue' = Tail(task_queue)
                /\ workers' = [workers EXCEPT ![w].pc = "run", ![w].cur = n]
                /\ UNCHANGED task_hist
    /\ UNCHANGED <<now, dbVars, task_objs, tasks, running, calls,
                   category_task_queues, category_task_locks, task_mirror,
                   checker_calls, ap, mr>>

\* line 135: asyncio.sleep(1) is over
WorkerWake(w) ==
    /\ workers[w].pc = "sleep"
    /\ workers' = [workers EXCEPT ![w].pc = "get"]
    /\ UNCHANGED <<now, dbVars, task_objs, task_hist, tasks, task_queue, running, calls,
                   category_task_queues, category_task_locks, task_mirror,
                   checker_calls, ap, mr>>

\* lines 126-129, 213-214: the 60 s wait timed out on an empty queue
WorkerIdleStop(w) ==
    /\ workers[w].pc = "get"
    /\ task_queue = <<>>
    /\ running' = FALSE
    /\ workers' = [workers EXCEPT ![w] = NoWorker]
    /\ UNCHANGED <<now, dbVars, task_objs, task_hist, tasks, task_queue, calls,
                   category_task_queues, category_task_locks, task_mirror,
                   checker_calls, ap, mr>>

\* result and not (isinstance(result, dict) and "error" in result)
IsSuccess(result) == DOMAIN result # {} /\ ~HasKey(result, "error")

\* a classification that leaves error unset
TaskOutcomeSilent(task, c) ==
    [task EXCEPT !.executed = TRUE, !.success = ~Raises(c) /\ IsSuccess(c.value)]

\* lines 186-199: the task's fields after the executor returned or raised
TaskOutcome(task, c) ==
    IF Raises(c)
    THEN [task EXCEPT !.executed = TRUE, !.success = FALSE, !.error = Str(c.exc)]
    ELSE IF IsSuccess(c.value)
    THEN [task EXCEPT !.executed = TRUE, !.success = TRUE]
    ELSE [task EXCEPT !.executed = TRUE, !.success = FALSE,
                      !.error = IF HasKey(c.value, "error") THEN c.value.error
                                ELSE "Analysis failed with no result"]

\* lines 142-184: the executor chosen by task_type, run to its end
RunExecutor(task, g) ==
    IF task.task_type = "market_research"
    THEN perform_market_research_analysis(task.product_id,
             IF task.prompt_block_id = NoneVal THEN market_prompt.id
             ELSE task.prompt_block_id, g)
    ELSE analyze_product(task.product_id, g, g)

\* the executor cut off by asyncio.wait_for(timeout=self.timeout) after k blocks
CancelExecutor(task, k, g) ==
    IF task.task_type = "market_research"
    THEN Effect(Raised(TimeoutError), analysis, master, EmptyBag)
    ELSE analyze_product_cancelled(task.product_id, k, g, g)

SchedGemini == {GenSuccess(300), GenFailure}

\* a dispatch that puts a failed task back on the queue
DispatchedRetry(w, e) ==
    LET n == workers[w].cur
        done == TaskOutcome(task_objs[n], e.outcome)
    IN  /\ task_objs' = [task_objs EXCEPT ![n] = done]
        /\ task_hist' = [task_hist EXCEPT ![n].runs = @ + 1]
        /\ task_queue' = IF done.success THEN task_queue ELSE Append(task_queue, n)
        /\ analysis' = e.analysis
        /\ master' = e.master
        /\ checker_calls' = checker_calls (+) e.checks
        /\ workers' = [workers EXCEPT ![w].pc = "mirror", ![w].res = e.outcome]
        /\ UNCHANGED <<now, products, active_blocks, market_prompt, tasks,
                       running, calls, category_task_queues, category_task_locks,
                       task_mirror, ap, mr>>

\* lines 138-199 with effect e of the executor
Dispatched(w, e) ==
    LET n == workers[w].cur
    IN  /\ task_objs' = [task_objs EXCEPT ![n] = TaskOutcome(@, e.outcome)]
        /\ task_hist' = [task_hist EXCEPT ![n].runs = @ + 1]
        /\ analysis' = e.analysis
        /\ master' = e.master
        /\ checker_calls' = checker_calls (+) e.checks
        /\ workers' = [workers EXCEPT ![w].pc = "mirror", ![w].res = e.outcome]
        /\ UNCHANGED <<now, products, active_blocks, market_prompt, tasks, task_queue,
                       running, calls, category_task_queues, category_task_locks,
                       task_mirror, ap, mr>>

Dispatch(w, g) ==
    /\ workers[w].pc = "run"
    /\ Dispatched(w, RunExecutor(task_objs[workers[w].cur], g))

DispatchTimeout(w, k, g) ==
    /\ workers[w].pc = "run"
    /\ Dispatched(w, CancelExecutor(task_objs[workers[w].cur], k, g))

TaskStatus(task) ==
    [executed |-> task.executed, success |-> task.success, error |-> task.error]

\* lines 201-206 and 237-261: the upsert, or its failure (logged), then
\* task_done and the await of products.find_one in _cleanup_category_queue
UpdateTaskStatus(w, ok) ==
    /\ workers[w].pc = "mirror"
    /\ LET task == task_objs[workers[w].cur]
       IN  task_mirror' = IF ok THEN DictSet(task_mirror, task.task_id, TaskStatus(task))
                          ELSE task_mirror
    /\ workers' = [workers EXCEPT ![w].pc = "cleanup"]
    /\ UNCHANGED <<now, dbVars, task_objs, task_hist, tasks, task_queue, running, calls,
                   category_task_queues, category_task_locks, checker_calls, ap, mr>>

\* lines 211-214: an exception ends the loop
WorkerDies(w) ==
    /\ running' = FALSE
    /\ workers' = [workers EXCEPT ![w] = NoWorker]

WorkerLoops(w) ==
    /\ workers' = [workers EXCEPT ![w] = [pc |-> "get", cur |-> 0, res |-> NoneVal]]
    /\ UNCHANGED running

HookCheck(key) == SetToBag({[origin |-> "hook", key |-> key]})

\* lines 219-235: _cleanup_category_queue for the task just handled
Cleanup(w, g) ==
    /\ workers[w].pc = "cleanup"
    /\ LET n == workers[w].cur
           p == task_objs[n].product_id
           c == SchedulerKey(p)
       IN  IF Raises(c)
           THEN /\ WorkerDies(w)
                /\ UNCHANGED <<category_task_queues, master, checker_calls, task_hist>>
           ELSE IF c.value = NoKey
           THEN /\ WorkerLoops(w)
                /\ UNCHANGED <<category_task_queues, master, checker_calls, task_hist>>
           ELSE LET key == get_category_key(c.value.main, c.value.sub)
                IN  IF ~HasKey(category_task_locks, key)
                    THEN \* category_task_locks[key]: KeyError
                         /\ WorkerDies(w)
                         /\ UNCHANGED <<category_task_queues, master, checker_calls,
                                        task_hist>>
                    ELSE LET locks == Acquire(category_task_locks, key, n)
                             left == category_task_queues[key] \ {p}
                             m == check_and_generate_master_recipes(
                                      master, analysis, c.value.main, c.value.sub, g, g)
                         IN  /\ category_task_queues' =
                                    [category_task_queues EXCEPT ![key] = left]
                             /\ task_hist' = [task_hist EXCEPT
                                    ![n].untracked = p \in category_task_queues[key],
                                    ![n].discard = Mutation(locks, key, n)]
                             /\ IF left # {}
                                THEN /\ WorkerLoops(w)
                                     /\ UNCHANGED <<master, checker_calls>>
                                ELSE /\ checker_calls' = checker_calls (+) HookCheck(key)
                                     /\ IF Raises(m)
                                        THEN WorkerDies(w) /\ UNCHANGED master
                                        ELSE WorkerLoops(w) /\ master' = m.value
    /\ UNCHANGED <<now, products, active_blocks, market_prompt, analysis, task_objs,
                   tasks, task_queue, calls, category_task_locks, task_mirror, ap, mr>>

Tick ==
    /\ now < MaxTime
    /\ now' = now + 1
    /\ UNCHANGED <<dbVars, task_objs, task_hist, tasks, task_queue, running, calls,
                   workers, category_task_queues, category_task_locks, task_mirror,
                   checker_calls, ap, mr>>

(***************************************************************************)
(* Spec: the scheduler.  The task_processor created by main.py's          *)
(* startup_event has entered its loop and waits on the empty queue.        *)
(***************************************************************************)
Init ==
    /\ now = 0
    /\ task_objs = <<>>
    /\ task_hist = <<>>
    /\ tasks = EmptyDict
    /\ task_queue = <<>>
    /\ running = TRUE
    /\ calls = {}
    /\ category_task_queues = EmptyDict
    /\ category_task_locks = EmptyDict
    /\ task_mirror = EmptyDict
    /\ checker_calls = EmptyBag
    /\ workers = [w \in WorkerSlots |->
                     IF w = 1 THEN [pc |-> "get", cur |-> 0, res |-> NoneVal]
                     ELSE NoWorker]
    /\ products = ProductIds
    /\ \E n \in 0..SchedBlocks : active_blocks = Blocks([i \in 1..n |-> TRUE])
    /\ market_prompt = MarketPrompt(TRUE)
    /\ analysis = EmptyBag
    /\ master = EmptyBag
    /\ ap = APIdle
    /\ mr = <<>>

Next ==
    \/ Tick
    \/ \E p \in ProductIds : \E delay \in 0..1 : \E inp \in TaskInputs :
          SchedulePut(p, delay, inp)
    \/ \E n \in calls : ScheduleTrack(n)
    \/ \E w \in WorkerSlots : WorkerStart(w)
    \/ \E w \in WorkerSlots : WorkerGet(w)
    \/ \E w \in WorkerSlots : WorkerWake(w)
    \/ \E w \in WorkerSlots : WorkerIdleStop(w)
    \/ \E w \in WorkerSlots : \E g \in SchedGemini : Dispatch(w, g)
    \/ \E w \in WorkerSlots : \E g \in SchedGemini :
          \E k \in 0..Len(active_blocks) : DispatchTimeout(w, k, g)
    \/ \E w \in WorkerSlots : \E ok \in BOOLEAN : UpdateTaskStatus(w, ok)
    \/ \E w \in WorkerSlots : \E g \in SchedGemini : Cleanup(w, g)

Spec == Init /\ [][Next]_vars

\* lines 263-288: the in-memory task under that id, else the mirrored row
get_task_status(task_id) ==
    IF HasKey(tasks, task_id) THEN TaskStatus(task_objs[tasks[task_id]])
    ELSE IF HasKey(task_mirror, task_id) THEN task_mirror[task_id]
    ELSE [executed |-> FALSE, success |-> FALSE, error |-> NoneVal]

\* the event loop runs every coroutine that is ready, and time passes
FairSpec ==
    /\ Spec
    /\ WF_vars(Tick)
    /\ WF_vars(\E n \in calls : ScheduleTrack(n))
    /\ \A w \in WorkerSlots :
          /\ WF_vars(WorkerStart(w))
          /\ WF_vars(WorkerGet(w))
          /\ WF_vars(WorkerWake(w))
          /\ WF_vars(\E g \in SchedGemini : Dispatch(w, g))
          /\ WF_vars(\E ok \in BOOLEAN : UpdateTaskStatus(w, ok))
          /\ WF_vars(\E g \in SchedGemini : Cleanup(w, g))

(***************************************************************************)
(* Claims about the scheduler (Spec, FairSpec).                            *)
(***************************************************************************)
Scheduled == 1..Len(task_objs)

InLoop(w) == workers[w].pc \notin {"none", "start"}

\* C2: at most one task_processor loop is active at any time, whatever the
\* interleaving of schedule_task calls and of the loop started at startup.
C2_OneWorkerLoop == Cardinality({w \in WorkerSlots : InLoop(w)}) <= 1

Accepted(n) == n \in Scheduled /\ task_hist[n].call = "returned"

ReportsExecuted(n) ==
    n \in Scheduled /\ get_task_status(task_objs[n].task_id).executed

\* C3: every task accepted by schedule_task eventually reports executed=true
\* through get_task_status, under fair scheduling of the worker loop.
C3_EventuallyExecuted ==
    \A n \in 1..MaxCalls : [](Accepted(n) => <>ReportsExecuted(n))

Quiescent ==
    /\ calls = {}
    /\ task_queue = <<>>
    /\ \A w \in WorkerSlots : workers[w].pc \in {"none", "get"}

HookCalls(key) == CopiesIn([origin |-> "hook", key |-> key], checker_calls)

TrackedKey(n) ==
    LET c == SchedulerKey(task_objs[n].product_id)
    IN  IF Raises(c) \/ c.value = NoKey THEN NoneVal
        ELSE get_category_key(c.value.main, c.value.sub)

\* every schedule_task call has tracked its product, the products are
\* distinct, and each was removed from its pending set by the cleanup of its task
AllUntracked ==
    /\ Quiescent
    /\ \A n \in Scheduled : Accepted(n) /\ task_hist[n].untracked
    /\ \A i, j \in Scheduled : i # j => task_objs[i].product_id # task_objs[j].product_id

\* C4: once all products tracked under a category key have gone through
\* _cleanup_category_queue, the pending set of the key is empty and the
\* completion checker has been invoked exactly once for the key.
C4_CheckerOnce ==
    AllUntracked =>
        \A n \in Scheduled :
            /\ category_task_queues[TrackedKey(n)] = {}
            /\ HookCalls(TrackedKey(n)) = 1

\* C5: any two schedule_task calls return different task_ids and leave two
\* independent entries in the task map.
C5_UniqueTaskIds ==
    /\ \A i, j \in Scheduled : i # j => task_objs[i].task_id # task_objs[j].task_id
    /\ Cardinality(DOMAIN tasks) = Len(task_objs)

JustDispatched(w) == workers[w].pc = "mirror"

Truthy(result) == DOMAIN result # {}

TimedOut(w) ==
    /\ JustDispatched(w)
    /\ Raises(workers[w].res)
    /\ workers[w].res.exc.exc = "TimeoutError"

\* C9: a task that exceeds the execution timeout ends executed=true,
\* success=false with an error that identifies the timeout.
C9_TimeoutIdentified ==
    \A w \in WorkerSlots :
        TimedOut(w) =>
            LET task == task_objs[workers[w].cur]
            IN  /\ task.executed
                /\ ~task.success
                /\ task.error \notin {NoneVal, ""}

Held(n) == \E w \in WorkerSlots : workers[w].pc # "none" /\ workers[w].cur = n

InQueue(n) == n \in Range(task_queue)

\* C10: no task is dispatched to an executor more than once, and a task that
\* has been executed is never put back on the queue.
C10_NoRerun ==
    \A n \in Scheduled :
        /\ task_hist[n].runs <= 1
        /\ task_objs[n].executed <=> task_hist[n].runs = 1
        /\ task_objs[n].executed => ~InQueue(n)
        /\ task_hist[n].runs = 0 => ~task_objs[n].executed

C10_Witness ==
    \E n \in Scheduled :
        /\ task_objs[n].executed
        /\ ~task_objs[n].success
        /\ ~Held(n)
        /\ \E m \in Scheduled : m # n /\ task_objs[m].executed

\* product p has finished a standard analysis: one of its tasks ran
\* analyze_product to its end and was marked successful
FinishedAnalysis(p) ==
    \E n \in Scheduled :
        /\ task_objs[n].product_id = p
        /\ task_objs[n].task_type = "standard_analysis"
        /\ task_objs[n].executed
        /\ task_objs[n].success

Expected(main, sub) == {p \in products : CountsProduct(p, main, sub)}

MastersFor(block, main, sub) ==
    {d \in BagToSet(master) :
        d.prompt_block_id = block.id /\ d.category = main /\ d.subcategory = sub}

OwnKey(p) == SchedulerKey(p).value

\* the completion event of p finds every product expected for p's category
\* finished
LastFinished(p) ==
    /\ FinishedAnalysis(p)
    /\ \A q \in Expected(OwnKey(p).main, OwnKey(p).sub) : FinishedAnalysis(q)

\* C14: once every one of the E products expected for a category has finished
\* analysis, the last one's completion check has succeeded: one MasterRecipe
\* exists for each active prompt block of the category.
C14_MasterAfterLast ==
    \A p \in products :
        LastFinished(p) =>
            \A i \in DOMAIN active_blocks :
                Cardinality(MastersFor(active_blocks[i], OwnKey(p).main, OwnKey(p).sub)) = 1

\* the task object n is being executed by a worker
Running(n) == \E w \in WorkerSlots : workers[w].pc = "run" /\ workers[w].cur = n

\* C16: a task is changed only by the worker loop that executes it and is
\* never deleted: every step leaves each task's map entry in place, changes a
\* task's fields only by executing it, and a status that reported
\* executed=true keeps reporting it.
C16_TaskFrame ==
    [][/\ \A tid \in DOMAIN tasks :
             /\ tid \in DOMAIN tasks'
             /\ tasks'[tid] = tasks[tid]
             /\ get_task_status(tid).executed => get_task_status(tid)'.executed
       /\ \A n \in Scheduled : task_objs'[n] # task_objs[n] => Running(n)]_vars

\* the loop of worker w ends in this step
LoopEnds(w) == workers[w].pc # "none" /\ workers'[w].pc = "none"

\* C17: the worker loop ends only through the idle path, with the queue
\* empty: no failure while handling one task ends the loop while other tasks
\* remain queued.
C17_ExitOnlyIdle ==
    [][\A w \in WorkerSlots : LoopEnds(w) => task_queue = <<>>]_vars

\* task n was added to the pending set of its category by its schedule_task call
Tracked(n) == n \in Scheduled /\ task_hist[n].add # "none"

\* C18: a product stays in its category's pending set for as long as it has a
\* tracked task that is not executed, also when it was scheduled more than
\* once, so the drain hook never finds the set empty while such a task remains.
C18_PendingWhileUnexecuted ==
    \A n \in Scheduled :
        (Tracked(n) /\ ~task_objs[n].executed) =>
            task_objs[n].product_id \in category_task_queues[TrackedKey(n)]

\* worker w popped task n in this step
Pops(w, n) ==
    /\ workers[w].pc = "get" /\ workers'[w].pc # "get"
    /\ task_queue # <<>> /\ Head(task_queue) = n

\* C20: a task is never dispatched before its scheduled_time: a popped task
\* that is not yet due goes back on the queue with executed, success and error
\* unchanged, and a task is handed to its executor only by a pop at or after
\* its scheduled_time.
C20_NotBeforeDue ==
    [][\A n \in Scheduled :
          /\ task_hist'[n].runs > task_hist[n].runs => task_objs[n].scheduled_time <= now
          /\ \A w \in WorkerSlots :
                Pops(w, n) =>
                    IF task_objs[n].scheduled_time > now
                    THEN /\ n \in Range(task_queue')
                         /\ task_objs'[n] = task_objs[n]
                         /\ task_hist'[n].runs = task_hist[n].runs
                         /\ workers'[w].cur # n
                    ELSE workers'[w].pc = "run" /\ workers'[w].cur = n]_vars

\* a task found not yet due by one pop has been dispatched after a later one
C20_Witness ==
    \E n \in Scheduled :
        /\ task_hist[n].deferred /\ task_hist[n].runs = 1
        /\ task_objs[n].executed /\ task_objs[n].scheduled_time <= now

Executing(w) == workers[w].pc \in {"run", "mirror", "cleanup"}

\* C11: at most one task is in execution at any time: no second task begins
\* executing before the executor call, the status persistence and the category
\* drain of the current task have finished.
C11_OneTaskInExecution == Cardinality({w \in WorkerSlots : Executing(w)}) <= 1

\* C12: every mutation of a category's pending set, the add of
\* _track_product_category and the discard of _cleanup_category_queue, is
\* made by a coroutine that holds the category's lock.
C12_MutationsLocked ==
    \A n \in Scheduled :
        /\ task_hist[n].add \in {"none", "locked"}
        /\ task_hist[n].discard \in {"none", "locked"}

(***************************************************************************)
(* SpecMR: invocations of check_and_generate_master_recipes for the        *)
(* category Home > Kitchen, interleaved at their awaits.  The scheduler's  *)
(* hook runs it under category_task_locks[key], the executor under         *)
(* analysis.category_locks[key], both inside the one task_processor loop;  *)
(* the /generate-master route runs it under no lock.                       *)
(***************************************************************************)
MRCategory == "Home"

MRSubcategory == "Kitchen"

MRProducts == {"p1", "p2"}

MRGemini == {GenSuccess(50), GenSuccess(300), GenFailure}

\* observed: the last poll found len(analyzed_ids) >= total_expected;
\* inserted: master recipes this invocation has inserted;
\* polls: iterations of the poll loop so far;
\* lock: the caller's "async with" on its category lock (SpecLK)
Invocation(origin, pc) ==
    [origin |-> origin, pc |-> pc, elapsed |-> 0, i |-> 0,
     observed |-> FALSE, inserted |-> 0, polls |-> 0, lock |-> "none"]

Invocations == 1..Len(mr)

Ended(k) == mr[k].pc \in {"done", "raised", "rejected"}

\* the hook and the executor call the checker from the task_processor loop,
\* one call at a time; each holds its category lock until the call ends
WorkerBusy == \E k \in Invocations : mr[k].origin \in {"hook", "executor"} /\ ~Ended(k)

InitMR ==
    /\ SchedInit
    /\ workers = [w \in WorkerSlots |-> NoWorker]
    /\ products = MRProducts
    /\ \E n \in 0..MRBlocks : \E f \in BlockLists(n) : active_blocks = Blocks(f)
    /\ market_prompt = MarketPrompt(TRUE)
    /\ analysis = EmptyBag
    /\ master = EmptyBag
    /\ ap = APIdle
    /\ mr = <<>>

\* analysis.py line 106, run by an executor for product p and block i
MRRowInserted(p, i) ==
    /\ i \in 1..Len(active_blocks)
    /\ LET row == AnalysisRow(p, active_blocks[i], MRCategory, MRSubcategory,
                              GenSuccess(300))
       IN  /\ ~BagIn(row, analysis)
           /\ analysis' = analysis (+) SetToBag({row})
    /\ UNCHANGED <<products, active_blocks, market_prompt, master, schedVars,
                   workers, ap, mr>>

\* scheduler.py lines 231-235 and analysis.py lines 304-306: async with lock
MRTrigger(origin) ==
    /\ Len(mr) < MaxTriggers
    /\ ~WorkerBusy
    /\ mr' = Append(mr, Invocation(origin, "poll"))
    /\ UNCHANGED <<dbVars, schedVars, workers, ap>>

\* master_recipes.find_one({"category", "subcategory"})
AnyMaster(category, subcategory) ==
    \E d \in BagToSet(master) : d.category = category /\ d.subcategory = subcategory

\* recipes.py lines 446-475
MRRoute(admin) ==
    /\ Len(mr) < MaxTriggers
    /\ mr' = Append(mr, Invocation("route",
                 IF AnyMaster(MRCategory, MRSubcategory) /\ ~admin
                 THEN "rejected" ELSE "poll"))
    /\ UNCHANGED <<dbVars, schedVars, workers, ap>>

\* for block in prompt_blocks: the loop moves to block i
AtBlock(inv, i) ==
    IF i > Len(active_blocks) THEN [inv EXCEPT !.pc = "done"]
    ELSE [inv EXCEPT !.pc = "exists", !.i = i]

\* the invocation after a poll that read analyzed_ids
Polled(inv) ==
    [inv EXCEPT !.observed = AllAnalyzed(analysis, MRCategory, MRSubcategory),
                !.polls = @ + 1]

\* a poll loop without the bound: "while True" with the same body
MRPollUnbounded(k) ==
    /\ k \in Invocations
    /\ mr[k].pc = "poll"
    /\ mr' = [mr EXCEPT ![k] =
                 IF Polled(@).observed
                 THEN AtBlock(Polled(@), 1)
                 ELSE [Polled(@) EXCEPT !.elapsed = @ + CheckInterval]]
    /\ UNCHANGED <<dbVars, schedVars, workers, ap>>

\* a poll whose final re-check is missing: generation starts after the timeout
MRPollProceeds(k) ==
    /\ k \in Invocations
    /\ mr[k].pc = "poll"
    /\ mr' = [mr EXCEPT ![k] =
                 IF Polled(@).observed
                 THEN AtBlock(Polled(@), 1)
                 ELSE IF @.elapsed + CheckInterval < MaxWaitTime
                 THEN [Polled(@) EXCEPT !.elapsed = @ + CheckInterval]
                 ELSE AtBlock([Polled(@) EXCEPT !.elapsed = @ + CheckInterval], 1)]
    /\ UNCHANGED <<dbVars, schedVars, workers, ap>>

\* analysis.py lines 324-344: one round of the poll
MRPoll(k) ==
    /\ k \in Invocations
    /\ mr[k].pc = "poll"
    /\ mr' = [mr EXCEPT ![k] =
                 IF Polled(@).observed
                 THEN AtBlock(Polled(@), 1)
                 ELSE IF @.elapsed + CheckInterval < MaxWaitTime
                 THEN [Polled(@) EXCEPT !.elapsed = @ + CheckInterval]
                 ELSE [Polled(@) EXCEPT !.elapsed = @ + CheckInterval, !.pc = "done"]]
    /\ UNCHANGED <<dbVars, schedVars, workers, ap>>

\* analysis.py lines 358-364
MRExists(k) ==
    /\ k \in Invocations
    /\ mr[k].pc = "exists"
    /\ mr' = [mr EXCEPT ![k] =
                 IF MasterExists(master, active_blocks[@.i], MRCategory, MRSubcategory)
                 THEN AtBlock(@, @.i + 1)
                 ELSE [@ EXCEPT !.pc = "find"]]
    /\ UNCHANGED <<dbVars, schedVars, workers, ap>>

\* analysis.py lines 366-373
MRFind(k) ==
    /\ k \in Invocations
    /\ mr[k].pc = "find"
    /\ mr' = [mr EXCEPT ![k] =
                 IF AnalysesFor(analysis, active_blocks[@.i],
                                MRCategory, MRSubcategory) = {}
                 THEN AtBlock(@, @.i + 1)
                 ELSE [@ EXCEPT !.pc = "generate"]]
    /\ UNCHANGED <<dbVars, schedVars, workers, ap>>

\* analysis.py lines 387-413
MRGenerate(k, g1, g2) ==
    /\ k \in Invocations
    /\ mr[k].pc = "generate"
    /\ LET block == active_blocks[mr[k].i]
           c == GenerateMaster(block, g1, g2)
       IN  IF Raises(c)
           THEN /\ mr' = [mr EXCEPT ![k].pc = "raised"]
                /\ UNCHANGED master
           ELSE /\ mr' = [mr EXCEPT ![k] =
                            AtBlock([@ EXCEPT !.inserted = @ + 1], @.i + 1)]
                /\ master' = master (+)
                       SetToBag({MasterDoc(block, MRCategory, MRSubcategory, c.value)})
    /\ UNCHANGED <<products, active_blocks, market_prompt, analysis, schedVars,
                   workers, ap>>

NextMR ==
    \/ \E p \in MRProducts : \E i \in 1..MRBlocks : MRRowInserted(p, i)
    \/ \E origin \in {"hook", "executor"} : MRTrigger(origin)
    \/ \E admin \in BOOLEAN : MRRoute(admin)
    \/ \E k \in 1..MaxTriggers : MRPoll(k)
    \/ \E k \in 1..MaxTriggers : MRExists(k)
    \/ \E k \in 1..MaxTriggers : MRFind(k)
    \/ \E k \in 1..MaxTriggers : \E g1, g2 \in MRGemini : MRGenerate(k, g1, g2)

SpecMR == InitMR /\ [][NextMR]_vars

(***************************************************************************)
(* SpecLK: the callers of the completion checker with their category       *)
(* locks.  The drain hook runs it inside "async with                       *)
(* category_task_locks[key]" (scheduler.py line 230), the executor inside  *)
(* "async with category_locks[key]" (analysis.py line 304) and under       *)
(* asyncio.wait_for (scheduler.py lines 178-184).  Callers may overlap as  *)
(* far as the locks allow.                                                 *)
(***************************************************************************)
\* the lock an invocation's caller takes
LockOf(origin) ==
    IF origin = "hook" THEN "category_task_locks" ELSE "category_locks"

\* asyncio.Lock.locked()
Locked(name) ==
    \E j \in Invocations : LockOf(mr[j].origin) = name /\ mr[j].lock = "held"

\* the caller reaches its "async with"
LKEnter(origin) ==
    /\ Len(mr) < MaxTriggers
    /\ mr' = Append(mr, [Invocation(origin, "acquire") EXCEPT !.lock = "waiting"])
    /\ UNCHANGED <<dbVars, schedVars, workers, ap>>

\* __aenter__: the lock is free and the caller takes it
LKAcquire(k) ==
    /\ k \in Invocations
    /\ mr[k].pc = "acquire"
    /\ ~Locked(LockOf(mr[k].origin))
    /\ mr' = [mr EXCEPT ![k].pc = "poll", ![k].lock = "held"]
    /\ UNCHANGED <<dbVars, schedVars, workers, ap>>

\* a cancellation that unwinds without __aexit__: the lock stays locked
LKCancelLeaks(k) ==
    /\ k \in Invocations
    /\ mr[k].origin = "executor"
    /\ mr[k].pc \in {"acquire", "poll", "exists", "find", "generate"}
    /\ mr' = [mr EXCEPT ![k].pc = "cancelled"]
    /\ UNCHANGED <<dbVars, schedVars, workers, ap>>

\* asyncio.wait_for times out: CancelledError is raised at the executor's
\* await and unwinds through "async with", whose __aexit__ releases the lock
LKCancel(k) ==
    /\ k \in Invocations
    /\ mr[k].origin = "executor"
    /\ mr[k].pc \in {"acquire", "poll", "exists", "find", "generate"}
    /\ mr' = [mr EXCEPT ![k].pc = "cancelled",
                        ![k].lock = IF @ = "held" THEN "released" ELSE "none"]
    /\ UNCHANGED <<dbVars, schedVars, workers, ap>>

\* __aexit__ after the checker returned or raised
LKRelease(k) ==
    /\ k \in Invocations
    /\ mr[k].pc \in {"done", "raised"}
    /\ mr[k].lock = "held"
    /\ mr' = [mr EXCEPT ![k].lock = "released"]
    /\ UNCHANGED <<dbVars, schedVars, workers, ap>>

NextLK ==
    \/ \E p \in MRProducts : \E i \in 1..MRBlocks : MRRowInserted(p, i)
    \/ \E origin \in {"hook", "executor"} : LKEnter(origin)
    \/ \E k \in 1..MaxTriggers : LKAcquire(k)
    \/ \E k \in 1..MaxTriggers : LKCancel(k)
    \/ \E k \in 1..MaxTriggers : LKRelease(k)
    \/ \E k \in 1..MaxTriggers : MRPoll(k)
    \/ \E k \in 1..MaxTriggers : MRExists(k)
    \/ \E k \in 1..MaxTriggers : MRFind(k)
    \/ \E k \in 1..MaxTriggers : \E g1, g2 \in MRGemini : MRGenerate(k, g1, g2)

SpecLK == InitMR /\ [][NextLK]_vars

\* every await of a caller completes
FairSpecLK ==
    /\ SpecLK
    /\ \A k \in 1..MaxTriggers :
          /\ WF_vars(LKAcquire(k))
          /\ WF_vars(LKRelease(k))
          /\ WF_vars(MRPoll(k))
          /\ WF_vars(MRExists(k))
          /\ WF_vars(MRFind(k))
          /\ WF_vars(\E g1, g2 \in MRGemini : MRGenerate(k, g1, g2))

Holds(k) == k \in Invocations /\ mr[k].lock = "held"

Waits(k) == k \in Invocations /\ mr[k].lock = "waiting"

\* C29: category locks neither deadlock nor leak: a caller waits for a
\* category lock only at its entry, when it holds none; at most one caller
\* holds a given lock; every lock taken is released in the end, also when the
\* executor holding it is cancelled by the execution timeout; and every
\* waiting caller gets on.
C29_LocksReleased ==
    /\ [](\A k \in Invocations : Waits(k) => mr[k].pc = "acquire")
    /\ [](\A j, k \in Invocations :
             (j # k /\ Holds(j) /\ Holds(k)) => LockOf(mr[j].origin) # LockOf(mr[k].origin))
    /\ [](\A k \in Invocations : mr[k].pc = "cancelled" => ~Holds(k))
    /\ \A k \in 1..MaxTriggers : [](Holds(k) => <>~Holds(k))
    /\ \A k \in 1..MaxTriggers : [](Waits(k) => <>~Waits(k))

\* an executor was cancelled while it held category_locks[key], and another
\* executor has taken the lock after it
C29_Witness ==
    \E j, k \in Invocations :
        /\ j < k
        /\ mr[j].origin = "executor" /\ mr[k].origin = "executor"
        /\ mr[j].pc = "cancelled" /\ mr[j].lock = "released"
        /\ mr[k].lock = "held"

(***************************************************************************)
(* Further claims about the scheduler (Spec, FairSpec).                    *)
(***************************************************************************)
\* the schedule_task call that made task n raised
CallRaised(n) == task_hist[n].call = "raised"

\* C24: schedule_task is all-or-nothing: when it raises, the task it built is
\* neither in the task map nor on the task queue, so no task is enqueued
\* without its task_id having been returned and a worker loop ensured.
C24_AllOrNothing ==
    \A n \in Scheduled :
        CallRaised(n) =>
            /\ ~(HasKey(tasks, task_objs[n].task_id) /\ tasks[task_objs[n].task_id] = n)
            /\ n \notin Range(task_queue)
            /\ task_hist[n].runs = 0

\* every schedule_task call has returned, every task has been executed and
\* its cleanup has run
AllDone ==
    /\ Quiescent
    /\ Scheduled # {}
    /\ \A n \in Scheduled : Accepted(n) /\ task_objs[n].executed

\* C25: pending sets hold no stale entries: a product is not added to a
\* pending set after the cleanup for its task has run, so once every
\* scheduled task is executed and every schedule_task call has returned,
\* every category's pending set is empty.
C25_NoStaleEntries ==
    AllDone => \A key \in DOMAIN category_task_queues : category_task_queues[key] = {}

\* the schedule_task call for task n returns in this step
CallReturns(n) ==
    /\ n \in calls
    /\ task_hist[n].call = "pending" /\ task_hist'[n].call = "returned"

\* a loop created by a schedule_task call has yet to begin, and task n, accepted
\* by such a call, has not been dispatched
AwaitsNewLoop(n) ==
    /\ Accepted(n)
    /\ task_hist[n].runs = 0
    /\ \E w \in WorkerSlots : workers[w].pc = "start"

WasDispatched(n) == n \in Scheduled /\ task_hist[n].runs >= 1

\* C27: the loop stops when its wait times out on the empty queue; a
\* schedule_task call that returns while no loop is running starts a new
\* loop, and that loop dispatches the newly scheduled task.
C27_LazyRestart ==
    /\ [][/\ \A w \in WorkerSlots :
              (workers[w].pc = "get" /\ task_queue = <<>> /\ workers'[w].pc = "none")
                  => ~running'
          /\ \A n \in Scheduled :
              (CallReturns(n) /\ ~running) =>
                  \E w \in WorkerSlots :
                      workers[w].pc = "none" /\ workers'[w].pc = "start"]_vars
    /\ \A n \in 1..MaxCalls : [](AwaitsNewLoop(n) => <>WasDispatched(n))

\* task n has been handed to its executor
Started(n) == task_hist[n].runs >= 1 \/ Running(n)

\* tasks are numbered in the order of their arrival on the queue
ArrivalOrder ==
    \A a, b \in Scheduled :
        (a < b /\ Started(b) /\ ~task_hist[a].deferred) => Started(a)

\* a popped head that is not yet due makes way for the task behind it
SkipsAhead ==
    \A w \in WorkerSlots : \A n \in Scheduled :
        (Pops(w, n) /\ task_objs[n].scheduled_time > now /\ Len(task_queue) >= 2) =>
            /\ Head(task_queue') = task_queue[2]
            /\ Last(task_queue') = n

\* C28: tasks are dispatched in the order of their arrival except for the
\* due-time skip: of two tasks the earlier one, if due when first popped, is
\* dispatched first; a head not yet due goes to the back, so the due task
\* behind it is the next to be popped.
C28_FifoWithSkip == []ArrivalOrder /\ [][SkipsAhead]_vars

\* a due task was dispatched ahead of an earlier one that was not yet due
C28_Witness ==
    \E a, b \in Scheduled :
        /\ a < b
        /\ task_hist[a].deferred /\ task_hist[a].runs = 0
        /\ task_hist[b].runs = 1 /\ ~task_hist[b].deferred

\* worker w's upsert of its task's final state failed in this step
UpsertFails(w) ==
    /\ workers[w].pc = "mirror" /\ workers'[w].pc # "mirror"
    /\ ~HasKey(task_mirror', task_objs[workers[w].cur].task_id)

\* worker w is about to run the drain hook after a failed upsert
AfterFailedUpsert(w) ==
    /\ workers[w].pc = "cleanup"
    /\ ~HasKey(task_mirror, task_objs[workers[w].cur].task_id)

\* the failed upsert changes no task and no queue and leads to the drain hook
FailedUpsertContained ==
    \A w \in WorkerSlots :
        UpsertFails(w) =>
            /\ task_objs' = task_objs
            /\ task_queue' = task_queue
            /\ workers'[w].pc = "cleanup"
            /\ workers'[w].cur = workers[w].cur

\* C23: when the upsert of a task's final state to the mirror fails, the
\* task's executed/success/error stay as they are, the task is not put back
\* on the queue, and the worker runs the drain hook for the task's product and
\* goes on to wait for the next queued task.
C23_MirrorFailureContained ==
    [][/\ FailedUpsertContained
       /\ \A w \in WorkerSlots :
             (AfterFailedUpsert(w) /\ workers'[w] # workers[w]) =>
                 /\ workers'[w].pc = "get"
                 /\ task_objs' = task_objs
                 /\ task_queue' = task_queue]_vars

(***************************************************************************)
(* SpecIV: the scheduler given standard_analysis tasks for products that   *)
(* analyze_product cannot use: p0 is not stored, p4 has no sub-category.   *)
(***************************************************************************)
IVProducts == {"p1", "p4"}

IVRequests == {"p0", "p1", "p4"}

\* as Init: the startup loop waits on the empty queue
InitIV ==
    /\ now = 0
    /\ task_objs = <<>>
    /\ task_hist = <<>>
    /\ tasks = EmptyDict
    /\ task_queue = <<>>
    /\ running = TRUE
    /\ calls = {}
    /\ category_task_queues = EmptyDict
    /\ category_task_locks = EmptyDict
    /\ task_mirror = EmptyDict
    /\ checker_calls = EmptyBag
    /\ workers = [w \in WorkerSlots |->
                     IF w = 1 THEN [pc |-> "get", cur |-> 0, res |-> NoneVal]
                     ELSE NoWorker]
    /\ products = IVProducts
    /\ \E n \in 0..SchedBlocks : active_blocks = Blocks([i \in 1..n |-> TRUE])
    /\ market_prompt = MarketPrompt(TRUE)
    /\ analysis = EmptyBag
    /\ master = EmptyBag
    /\ ap = APIdle
    /\ mr = <<>>

NextIV ==
    \/ \E p \in IVRequests : SchedulePut(p, 0, [task_type |-> "standard_analysis", prompt_block_id |-> NoneVal])
    \/ \E n \in calls : ScheduleTrack(n)
    \/ \E w \in WorkerSlots : WorkerStart(w)
    \/ \E w \in WorkerSlots : WorkerGet(w)
    \/ \E w \in WorkerSlots : WorkerIdleStop(w)
    \/ \E w \in WorkerSlots : \E g \in SchedGemini : Dispatch(w, g)
    \/ \E w \in WorkerSlots : \E g \in SchedGemini :
          \E k \in 0..Len(active_blocks) : DispatchTimeout(w, k, g)
    \/ \E w \in WorkerSlots : \E ok \in BOOLEAN : UpdateTaskStatus(w, ok)
    \/ \E w \in WorkerSlots : \E g \in SchedGemini : Cleanup(w, g)

SpecIV == InitIV /\ [][NextIV]_vars

\* analyze_product's validation rejects product p for want of a document, a
\* main category or a sub-category
Unusable(p) ==
    \/ p \notin products
    \/ /\ category_hierarchy(p).layout = "dict"
       /\ \/ Falsy(category_hierarchy(p).main_category)
          \/ category_hierarchy(p).sub_categories = <<>>

ValidationError(p) ==
    IF p \notin products THEN ValueError("Product not found")
    ELSE ValueError("Category hierarchy incomplete")

\* the executor of task n raised in this step
ExecutorRaised(n) ==
    /\ task_hist'[n].runs # task_hist[n].runs
    /\ \E w \in WorkerSlots :
          /\ workers[w].pc = "run" /\ workers[w].cur = n
          /\ Raises(workers'[w].res)
          /\ workers'[w].res.exc.exc = "ValueError"

\* C22: for a product that does not exist or lacks a main category or any
\* sub-category, analyze_product raises whatever the generation client would
\* answer and inserts no AnalysisResult; the scheduler marks the task
\* executed, not successful, with the raised message as error, and the task
\* is dispatched once only.
C22_UnusableProductFails ==
    [][\A n \in Scheduled :
          LET p == task_objs[n].product_id
          IN  Unusable(p) =>
                /\ \A g \in GeminiResults :
                      /\ analyze_product(p, g, g).outcome = Raised(ValidationError(p))
                      /\ analyze_product(p, g, g).analysis = analysis
                /\ ExecutorRaised(n) =>
                      /\ analysis' = analysis
                      /\ task_hist[n].runs = 0
                      /\ task_objs'[n].executed
                      /\ ~task_objs'[n].success
                      /\ task_objs'[n].error = Str(ValidationError(p))
                /\ task_objs[n].executed =>
                      /\ task_objs'[n] = task_objs[n]
                      /\ task_hist'[n].runs = task_hist[n].runs
                      /\ n \notin Range(task_queue')]_vars

\* tasks for the missing product and for the one without a sub-category have
\* both been dispatched and marked
C22_Witness ==
    \E m, n \in Scheduled :
        /\ task_objs[m].product_id = "p0" /\ task_objs[n].product_id = "p4"
        /\ task_hist[m].runs = 1 /\ task_hist[n].runs = 1
        /\ task_objs[m].error = "Product not found"
        /\ task_objs[n].error = "Category hierarchy incomplete"
        /\ Len(active_blocks) >= 1

(***************************************************************************)
(* Claims about the completion checker (SpecMR).                           *)
(***************************************************************************)
SameTriple(d, e) ==
    /\ d.prompt_block_id = e.prompt_block_id
    /\ d.category = e.category
    /\ d.subcategory = e.subcategory

\* C1: at most one MasterRecipe document exists for any (prompt_block_id,
\* category, subcategory) triple, also when invocations of the completion
\* checker for the same category run concurrently.
C1_OneMasterPerTriple ==
    \A d \in BagToSet(master) :
        /\ CopiesIn(d, master) = 1
        /\ \A e \in BagToSet(master) : SameTriple(d, e) => d = e

\* C19: an invocation of check_and_generate_master_recipes inserts a
\* MasterRecipe only if its poll observed the analyzed count reach
\* total_expected; one whose count stayed below total_expected for the whole
\* bound returns without having inserted any.
C19_InsertOnlyWhenObserved ==
    \A k \in Invocations :
        /\ mr[k].inserted > 0 => mr[k].observed
        /\ (~mr[k].observed /\ mr[k].elapsed >= MaxWaitTime) =>
               mr[k].pc = "done" /\ mr[k].inserted = 0

C19_Witness ==
    \E j, k \in Invocations :
        /\ mr[j].pc = "done" /\ ~mr[j].observed
        /\ mr[j].elapsed = MaxWaitTime /\ mr[j].inserted = 0
        /\ mr[k].observed /\ mr[k].inserted > 0

\* the most iterations the poll loop can make: max_wait_time / check_interval
MaxPolls == MaxWaitTime \div CheckInterval

\* C26: the poll loop of check_and_generate_master_recipes makes at most 10
\* iterations (2 s apart, 20 s in all); after the last one the invocation
\* either proceeds to generation or returns, also when the analyzed count
\* never reaches total_expected.
C26_PollBounded ==
    \A k \in Invocations :
        /\ mr[k].polls <= MaxPolls
        /\ mr[k].elapsed <= MaxWaitTime
        /\ mr[k].pc = "poll" => mr[k].polls < MaxPolls
        /\ (mr[k].polls = MaxPolls /\ ~mr[k].observed) => mr[k].pc = "done"

\* one invocation gave up after its tenth poll, another proceeded to
\* generation on its tenth
C26_Witness ==
    \E j, k \in Invocations :
        /\ mr[j].polls = 10 /\ ~mr[j].observed /\ mr[j].pc = "done"
        /\ mr[k].polls = 10 /\ mr[k].observed /\ mr[k].pc # "poll"

(***************************************************************************)
(* Claims about analyze_product (SpecAP).                                  *)
(***************************************************************************)
RowsOf(p, b) ==
    BagCardinality([r \in {x \in BagToSet(analysis) :
                        x.product_id = p /\ x.prompt_block_id = b} |-> analysis[r]])

\* C6: a run of analyze_product that returns has inserted exactly N rows for
\* its product, one per active prompt block, whether or not the block's
\* generation call failed.
C6_RowPerBlock ==
    ap.pc = "returned" =>
        /\ BagCardinality(analysis) - ap.before = Len(active_blocks)
        /\ \A i \in DOMAIN active_blocks : RowsOf(ap.product_id, active_blocks[i].id) = 1

\* C13: for every product, the key under which the scheduler tracks it, the
\* (category, subcategory) analyze_product stamps on its rows and the filter
\* by which the completion checker counts it select the same pair.
C13_SameCategoryKey ==
    ap.pc = "returned" =>
        LET p == ap.product_id
            k == SchedulerKey(p)
        IN  /\ ~Raises(k)
            /\ k.value = [main |-> ap.main, sub |-> ap.sub]
            /\ \A c \in MainCategories : \A s \in SubCategories :
                   CountsProduct(p, c, s) <=> (c = ap.main /\ s = ap.sub)

\* every block's generation call succeeded with at least 200 characters
AllLong ==
    \A i \in DOMAIN active_blocks :
        /\ HasKey(ap.hist, active_blocks[i].id)
        /\ ~Raises(ap.hist[active_blocks[i].id].first)
        /\ ap.hist[active_blocks[i].id].first.value.success
        /\ ap.hist[active_blocks[i].id].first.value.response >= MinResponseLen

\* the task of the run, as task_processor leaves it after the executor returned
TaskOfRun ==
    TaskOutcome(AnalysisTask(ap.product_id, 0, TaskId(0, ap.product_id),
                             "standard_analysis", NoneVal),
                Returned(ap.analysis_results))

\* C15: a standard_analysis run on a product with a complete hierarchy and
\* N >= 1 active blocks whose generation calls all succeed with at least 200
\* characters adds exactly N rows and its task ends executed=true,
\* success=true, error=null.
C15_AllSucceed ==
    (ap.pc = "returned" /\ Len(active_blocks) >= 1 /\ AllLong) =>
        /\ BagCardinality(analysis) - ap.before = Len(active_blocks)
        /\ TaskOfRun.executed
        /\ TaskOfRun.success
        /\ TaskOfRun.error = NoneVal

\* the same with no block titled "error"
C15_PlainTitles ==
    (\A i \in DOMAIN active_blocks : active_blocks[i].block_title # "error")
        => C15_AllSucceed

ShortSuccess(c) ==
    ~Raises(c) /\ c.value.success /\ HasKey(c.value, "response")
               /\ c.value.response < MinResponseLen

LongSuccess(c) ==
    ~Raises(c) /\ c.value.success /\ HasKey(c.value, "response")
               /\ c.value.response >= MinResponseLen

PersistedFor(b, c) ==
    /\ ~Raises(c)
    /\ \E r \in BagToSet(analysis) :
          /\ r.product_id = ap.product_id
          /\ r.prompt_block_id = b
          /\ r.output = c.value

\* C7: for every processed block, a first call that succeeds with fewer than
\* 200 characters is followed by exactly one re-run whose result is the one
\* persisted; a first call with 200 characters or more is the only call and
\* its result is persisted.
C7_RerunOnce ==
    \A b \in DOMAIN ap.calls :
        /\ ShortSuccess(ap.hist[b].first) =>
               ap.calls[b] = 2 /\ PersistedFor(b, ap.hist[b].last)
        /\ LongSuccess(ap.hist[b].first) =>
               ap.calls[b] = 1 /\ PersistedFor(b, ap.hist[b].first)

\* the generation call that decided block b failed: it raised, or it returned
\* an error result
FailedBlock(b) ==
    \/ Raises(ap.hist[b].last)
    \/ ~ap.hist[b].last.value.success

\* the run has passed validation and ended
RunEnded == ap.pc \in {"returned", "raised"} /\ ap.i >= 1

\* C21: a failure of one block's generation call (error result or exception)
\* does not abort the run: a run that passed validation ends only after every
\* active block was attempted, and every failed block is recorded in the
\* analysis map as an error string under the block's title.
C21_BlockFailureContained ==
    /\ RunEnded => ap.i > Len(active_blocks)
    /\ ap.pc # "idle" =>
          \A i \in DOMAIN active_blocks :
              i < ap.i =>
                  LET block == active_blocks[i]
                  IN  /\ HasKey(ap.calls, block.id)
                      /\ ap.calls[block.id] >= 1
                      /\ FailedBlock(block.id) =>
                             /\ HasKey(ap.analysis_results, block.block_title)
                             /\ ap.analysis_results[block.block_title].error

\* a run returned after a failed block that was followed by another block
C21_Witness ==
    /\ ap.pc = "returned"
    /\ Len(active_blocks) >= 2
    /\ FailedBlock(active_blocks[1].id)
    /\ ~FailedBlock(active_blocks[2].id)
    /\ ap.analysis_results[active_blocks[1].block_title].error

\* every block's generation call failed
AllFailed ==
    \A i \in DOMAIN active_blocks :
        HasKey(ap.hist, active_blocks[i].id) /\ FailedBlock(active_blocks[i].id)

\* C30: a standard_analysis run on an existing product with a complete
\* hierarchy and no active prompt block leaves its task executed=true,
\* success=false, error 'Analysis failed with no result' and adds no row;
\* with at least one active block the task ends success=true even when every
\* block's generation failed.
C30_EmptyVersusFailed ==
    ap.pc = "returned" =>
        /\ Len(active_blocks) = 0 =>
              /\ TaskOfRun.executed
              /\ ~TaskOfRun.success
              /\ TaskOfRun.error = "Analysis failed with no result"
              /\ BagCardinality(analysis) = ap.before
        /\ (Len(active_blocks) >= 1 /\ AllFailed) =>
              /\ TaskOfRun.executed
              /\ TaskOfRun.success

\* the same with no block titled "error"
C30_PlainTitles ==
    (\A i \in DOMAIN active_blocks : active_blocks[i].block_title # "error")
        => C30_EmptyVersusFailed

====
